---- MODULE Spec2Model ----
(***************************************************************************)
(* Model of the online restaurant (src/online_restaurant.py,               *)
(* src/online_restaurant_db.py): registration and login, the reservation   *)
(* allocator, the basket and the order pipeline, as request handlers       *)
(* acting on the relational store and on the cookie sessions.              *)
(*                                                                         *)
(* A database row is a record and a table the set of its rows.  Money is   *)
(* counted in cents and raw price input in thousandths.  The state is the  *)
(* store and the sessions: a request that is turned away (a redirect, a    *)
(* 403, a flashed message) leaves every variable as it was.                *)
(***************************************************************************)
EXTENDS Integers, FiniteSets, Sequences, Bags, TLC

VARIABLES
    users,          \* table "users": rows [id, nickname, email, password]
    session,        \* cookie sessions: [user_id, csrf_token, basket]
    reservation,    \* table "reservation"
    nextResId,      \* the serial primary key of "reservation"
    req,            \* the bag of requests in flight between query and commit
    menu_t,         \* table "menu"
    nextMenuId,     \* the serial primary key of "menu"
    orders,         \* table "orders"
    nextOrderId     \* the serial primary key of "orders"

vars == <<users, session, reservation, nextResId, req,
          menu_t, nextMenuId, orders, nextOrderId>>

resVars == <<reservation, nextResId, req>>
orderVars == <<menu_t, nextMenuId, orders, nextOrderId>>

----------------------------------------------------------------------------
(* Bounds of the model *)

NUsers == 3          \* registered users, the administrator included
MaxInflight == 2     \* POST /reserved requests handled concurrently
MaxResId == 3        \* reservation rows ever inserted
MaxMenuId == 4       \* menu rows ever inserted, the seeded ones included
MaxOrderId == 1      \* order rows ever inserted
MaxBasketUnits == 2  \* units held by all baskets together

----------------------------------------------------------------------------
(* Program constants *)

ADMIN_NICKNAME == "Admin"

ADMIN_PASSWORD == "123456789"

TableTypes == {"1-2", "3-4", "4+"}

TABLE_NUM == [t \in TableTypes |->
                 CASE t = "1-2" -> 6
                   [] t = "3-4" -> 4
                   [] t = "4+"  -> 2]

\* TABLE_NUM.get(table_type, 0)
TableNumGet(table_type) ==
    IF table_type \in DOMAIN TABLE_NUM THEN TABLE_NUM[table_type] ELSE 0

----------------------------------------------------------------------------
(* Users and sessions *)

UserIds == 1..NUsers

\* One session per user, logged in, and session 0 of an anonymous visitor.
Sessions == 0..NUsers

NicknameOfId(id) == IF id = 1 THEN ADMIN_NICKNAME ELSE "user" \o ToString(id)

\* set_password: the salted hash, which check_password matches against the
\* password it was made from and against no other.
Hash(password) == "bcrypt:" \o password

\* ensure_admin_exists: the row of the administrator.
AdminUser ==
    [id |-> 1, nickname |-> ADMIN_NICKNAME, email |-> "admin@hogwarts.feast",
     password |-> Hash(ADMIN_PASSWORD)]

\* The rows of "users": the seeded administrator and the registered guests.
InitUsers ==
    {AdminUser}
    \cup {[id |-> i, nickname |-> NicknameOfId(i),
           email |-> NicknameOfId(i) \o "@owl.post",
           password |-> Hash("alohomora")] : i \in UserIds \ {1}}

\* load_user: the row of the session's user id, or nothing.
LoadUser(user_id) == {u \in users : u.id = user_id}

\* current_user.is_authenticated, as login_required tests it.
IsAuthenticated(s) == LoadUser(session[s].user_id) # {}

\* current_user.nickname == ADMIN_NICKNAME
IsAdmin(s) ==
    \E u \in LoadUser(session[s].user_id) : u.nickname = ADMIN_NICKNAME

\* Mutant: a form without the token field passes.
validate_csrf_MissingPasses(s, form_token) ==
    form_token = "" \/ session[s].csrf_token = form_token

\* validate_csrf: the form token is present and equals the session's token.
validate_csrf(s, form_token) ==
    form_token # "" /\ session[s].csrf_token = form_token

\* guarantee_csrf_token: the token the session was given.
CsrfTokenOf(s) == "token" \o ToString(s)

\* The csrf_token form field: missing, the session's own, or a forged one.
CsrfInputs(s) == {"", CsrfTokenOf(s), "forged"}

\* str.strip() on the inputs of the model.
Strip(str) ==
    CASE str \in {"", " ", "  "} -> ""
      [] str = " luna " -> "luna"
      [] str = " LUNA@owl.post " -> "LUNA@owl.post"
      [] OTHER -> str

\* str.lower() on the inputs of the model.
Lower(str) ==
    CASE str = "LUNA@owl.post" -> "luna@owl.post"
      [] OTHER -> str

EmptyBasket == [n \in {} |-> 0]

----------------------------------------------------------------------------
(* Reservation allocator: POST /reserved *)

\* The table_type field: two types of the enumeration and one outside it
\* ("1-2" differs from "3-4" in its capacity alone).
TableInputs == {"3-4", "4+", "VIP"}

GoodTime == "2025-12-24T18:30"
TimeInputs == {"", GoodTime, "24.12.2025 18:30"}

\* datetime.fromisoformat: the strings it parses; any other raises ValueError.
FromIsoformatOk(time) == time \in {GoodTime}

GoodContact ==
    [customer_name |-> "Ann", customer_phone |-> "555",
     customer_email |-> "ann@owl.post", customer_address |-> "Diagon 1"]

\* The contact fields of the form: all given, or one of them blank or missing.
ContactInputs ==
    {GoodContact,
     [GoodContact EXCEPT !.customer_name = " "],
     [GoodContact EXCEPT !.customer_phone = ""],
     [GoodContact EXCEPT !.customer_email = ""],
     [GoodContact EXCEPT !.customer_address = "  "]}

ReservedForm(csrf_token, table_type, time, contact) ==
    [csrf_token |-> csrf_token, table_type |-> table_type, time |-> time,
     customer_name |-> contact.customer_name,
     customer_phone |-> contact.customer_phone,
     customer_email |-> contact.customer_email,
     customer_address |-> contact.customer_address]

\* The forms posted to /reserved: every table type and time with a good token
\* and contact, and a form spoilt in one field for each check it can fail.
ReservedForms(s) ==
    {ReservedForm(CsrfTokenOf(s), t, time, GoodContact) :
        t \in TableInputs, time \in TimeInputs}
    \cup {ReservedForm(CsrfTokenOf(s), "4+", GoodTime, c) : c \in ContactInputs}
    \cup {ReservedForm(tok, "4+", GoodTime, GoodContact) : tok \in CsrfInputs(s)}

\* all([guest_name, guest_phone, guest_email, guest_address, reserved_time_start])
AllFilled(form) ==
    /\ Strip(form.customer_name) # ""
    /\ Strip(form.customer_phone) # ""
    /\ Strip(form.customer_email) # ""
    /\ Strip(form.customer_address) # ""
    /\ form.time # ""

\* db.query(Reservation).filter(Reservation.user_id == current_user.id).first()
Existing(rows, user_id) == \E row \in rows : row.user_id = user_id

\* db.query(Reservation).filter(Reservation.type_table == table_type).count()
Taken(rows, table_type) ==
    Cardinality({row \in rows : row.type_table = table_type})

\* Mutant: the capacity test lets a request through at taken = capacity.
ReserveOutcome_OffByOne(existing, taken, table_type, time) ==
    IF existing THEN "has_active"
    ELSE IF taken > TableNumGet(table_type) THEN "full"
    ELSE IF ~FromIsoformatOk(time) THEN "bad_time"
    ELSE "created"

\* Mutant: the ValueError of the parse is not turned into a rejection.
ReserveOutcome_NoTimeCheck(existing, taken, table_type, time) ==
    IF existing THEN "has_active"
    ELSE IF taken >= TableNumGet(table_type) THEN "full"
    ELSE "created"

\* The if/elif/else chain that decides a reservation request, by the message
\* it ends with.
ReserveOutcome(existing, taken, table_type, time) ==
    IF existing THEN "has_active"
    ELSE IF taken >= TableNumGet(table_type) THEN "full"
    ELSE IF ~FromIsoformatOk(time) THEN "bad_time"
    ELSE "created"

One(q) == SetToBag({q})

\* The request arrives: login_required, the CSRF check, the required fields,
\* then the first query of the transaction (the user's existing reservation).
ReservedBegin(s, form) ==
    /\ BagCardinality(req) < MaxInflight
    /\ nextResId + BagCardinality(req) <= MaxResId
    /\ IF /\ IsAuthenticated(s)
          /\ validate_csrf(s, form.csrf_token)
          /\ AllFilled(form)
         THEN req' = req (+) One(
                        [pc |-> "existing", user_id |-> session[s].user_id,
                         table_type |-> form.table_type,
                         time |-> form.time,
                         existing |-> Existing(reservation, session[s].user_id),
                         taken |-> 0])
         ELSE UNCHANGED req
    /\ UNCHANGED <<users, session, reservation, nextResId, orderVars>>

\* The second query: the number of reservations of the requested table type.
ReservedCount(q) ==
    /\ BagIn(q, req)
    /\ q.pc = "existing"
    /\ req' = (req (-) One(q)) (+)
              One([q EXCEPT !.pc = "taken",
                            !.taken = Taken(reservation, q.table_type)])
    /\ UNCHANGED <<users, session, reservation, nextResId, orderVars>>

NewReservation(q) ==
    [id |-> nextResId, user_id |-> q.user_id,
     type_table |-> q.table_type, time_start |-> q.time]

\* The decision on the two query results and on the parse of the request's
\* time, then db.add and db.commit.
ReservedFinish(q) ==
    /\ BagIn(q, req)
    /\ q.pc = "taken"
    /\ IF ReserveOutcome(q.existing, q.taken, q.table_type, q.time) = "created"
         THEN /\ reservation' = reservation \cup {NewReservation(q)}
              /\ nextResId' = nextResId + 1
         ELSE UNCHANGED <<reservation, nextResId>>
    /\ req' = req (-) One(q)
    /\ UNCHANGED <<users, session, orderVars>>

----------------------------------------------------------------------------
(* Reservations of the administrator and of the owner *)

ReservIdInputs == 1..MaxResId

\* Mutant: the administrator gate of /reservations_check is missing.
ReservationsCheck_NoGate(s, csrf_token, reserv_id) ==
    /\ IF IsAuthenticated(s) /\ validate_csrf(s, csrf_token)
         THEN reservation' = {row \in reservation : row.id # reserv_id}
         ELSE UNCHANGED reservation
    /\ UNCHANGED <<users, session, nextResId, req, orderVars>>

\* POST /reservations_check: login_required, the administrator gate, the CSRF
\* check, then the reservation of that id, if there is one, is deleted.
ReservationsCheck(s, csrf_token, reserv_id) ==
    /\ IF IsAuthenticated(s) /\ IsAdmin(s) /\ validate_csrf(s, csrf_token)
         THEN reservation' = {row \in reservation : row.id # reserv_id}
         ELSE UNCHANGED reservation
    /\ UNCHANGED <<users, session, nextResId, req, orderVars>>

\* GET /my_reservations: the rows the page lists for the session's user.
MyReservationsListing(s) ==
    {row \in reservation : row.user_id = session[s].user_id}

\* GET /my_reservations: a query and a page, nothing is written.
MyReservations(s) ==
    /\ IsAuthenticated(s)
    /\ MyReservationsListing(s) \subseteq reservation
    /\ UNCHANGED vars

----------------------------------------------------------------------------
(* Menu and basket *)

\* seed_initial_menu (the names are given in English); prices in cents.
SeedMenu ==
    {[id |-> 1, name |-> "Pumpkin Elixir", price |-> 8900, active |-> TRUE],
     [id |-> 2, name |-> "Snow Owl Pie", price |-> 7400, active |-> TRUE],
     [id |-> 3, name |-> "Gryffindor Roast Beef", price |-> 18900,
      active |-> TRUE]}

\* The dish names that requests carry, in the URL of /position/<name> and in
\* the form of /add_position.
NameInputs == {"Pumpkin Elixir", "Snow Owl Pie"}

Max(a, b) == IF a >= b THEN a ELSE b

\* int(amount): the literals it parses; any other string raises ValueError.
IntLiterals == {"-3", "1", "2"}

IntOf(str) ==
    CASE str = "-3" -> 0 - 3
      [] str = "1" -> 1
      [] str = "2" -> 2

NumInputs == IntLiterals \cup {"abc"}

\* Mutant: the parsed quantity is taken as it is.
Quantity_Unclamped(amount) ==
    IF amount \in IntLiterals THEN IntOf(amount) ELSE 1

\* qty = max(1, int(amount)), and 1 on ValueError.
Quantity(amount) ==
    IF amount \in IntLiterals THEN Max(1, IntOf(amount)) ELSE 1

\* basket.get(name, 0)
BasketGet(basket, name) == IF name \in DOMAIN basket THEN basket[name] ELSE 0

\* basket[name] = qty
BasketPut(basket, name, qty) ==
    [n \in DOMAIN basket \cup {name} |-> IF n = name THEN qty ELSE basket[n]]

RECURSIVE BasketUnits(_, _)
BasketUnits(basket, names) ==
    IF names = {} THEN 0
    ELSE LET n == CHOOSE x \in names : TRUE
         IN basket[n] + BasketUnits(basket, names \ {n})

\* The units in the baskets of the sessions ss, for the bound of the model.
RECURSIVE UnitsHeld(_)
UnitsHeld(ss) ==
    IF ss = {} THEN 0
    ELSE LET s == CHOOSE x \in ss : TRUE
         IN BasketUnits(session[s].basket, DOMAIN session[s].basket)
            + UnitsHeld(ss \ {s})

\* The forms posted to /position/<name>: every quantity with the session's
\* token, and a quantity with no token and with a forged one.
PositionForms(s) ==
    [csrf_token : {CsrfTokenOf(s)}, num : NumInputs]
    \cup [csrf_token : CsrfInputs(s), num : {"2"}]

\* Mutant: the lookup filters on the name alone.
ActiveItem_AnyName(name) == {row \in menu_t : row.name = name}

\* The active menu item of that name, which /position/<name> looks up first.
ActiveItem(name) == {row \in menu_t : row.active /\ row.name = name}

\* POST /position/<name>: the active item is looked up, then the CSRF check,
\* then the quantity is added to the session's basket.
Position(s, name, form) ==
    /\ IF ActiveItem(name) # {} /\ validate_csrf(s, form.csrf_token)
         THEN LET qty == Quantity(Strip(form.num))
                  basket == session[s].basket
              IN /\ UnitsHeld(Sessions) + qty <= MaxBasketUnits
                 /\ session' = [session EXCEPT ![s].basket =
                                   BasketPut(basket, name,
                                             BasketGet(basket, name) + qty)]
         ELSE UNCHANGED session
    /\ UNCHANGED <<users, resVars, orderVars>>

----------------------------------------------------------------------------
(* Order pipeline: POST /create_order *)

\* Mutant: only the active menu items are priced.
Prices_ActiveOnly(rows, names) ==
    LET items == {row \in rows : row.name \in names /\ row.active}
    IN [n \in {row.name : row \in items} |->
           (CHOOSE row \in items : row.name = n).price]

\* prices = {item.name: Decimal(str(item.price)) for item in menu_items}, the
\* menu items being those whose name is among `names`, active or not.
Prices(rows, names) ==
    LET items == {row \in rows : row.name \in names}
    IN [n \in {row.name : row \in items} |->
           (CHOOSE row \in items : row.name = n).price]

\* prices.get(name, Decimal("0"))
PricesGet(prices, name) == IF name \in DOMAIN prices THEN prices[name] ELSE 0

\* sum(prices.get(name, 0) * qty for name, qty in order_list.items())
RECURSIVE SumLines(_, _, _)
SumLines(prices, order_list, names) ==
    IF names = {} THEN 0
    ELSE LET n == CHOOSE x \in names : TRUE
         IN PricesGet(prices, n) * order_list[n]
            + SumLines(prices, order_list, names \ {n})

\* The total of create_order.
OrderTotal(basket, rows) ==
    SumLines(Prices(rows, DOMAIN basket), basket, DOMAIN basket)

\* Mutant: the emptiness test of the basket is dropped.
BasketIsEmpty_Never(basket) == FALSE

\* not basket
BasketIsEmpty(basket) == DOMAIN basket = {}

GoodOrderContact ==
    [customer_name |-> "Ann", customer_phone |-> "555",
     customer_address |-> "Diagon 1"]

OrderForm(csrf_token, contact) ==
    [csrf_token |-> csrf_token,
     customer_name |-> contact.customer_name,
     customer_phone |-> contact.customer_phone,
     customer_address |-> contact.customer_address,
     payment_method |-> "card", delivery_notes |-> ""]

\* The forms posted to /create_order: a good one, and one spoilt in one field
\* for each check it can fail.
OrderForms(s) ==
    {OrderForm(tok, GoodOrderContact) : tok \in CsrfInputs(s)}
    \cup {OrderForm(CsrfTokenOf(s), c) :
             c \in {[GoodOrderContact EXCEPT !.customer_name = " "],
                    [GoodOrderContact EXCEPT !.customer_phone = ""],
                    [GoodOrderContact EXCEPT !.customer_address = "  "]}}

\* The contact check of create_order on the stripped fields.
ContactFilled(form) ==
    /\ Strip(form.customer_name) # ""
    /\ Strip(form.customer_phone) # ""
    /\ Strip(form.customer_address) # ""

NewOrder(s, form) ==
    [id |-> nextOrderId,
     order_list |-> session[s].basket,
     total_cost |-> OrderTotal(session[s].basket, menu_t),
     customer_name |-> Strip(form.customer_name),
     customer_phone |-> Strip(form.customer_phone),
     customer_address |-> Strip(form.customer_address),
     payment_method |-> form.payment_method,
     delivery_notes |-> Strip(form.delivery_notes),
     user_id |-> session[s].user_id]

\* Mutant: the basket is left in the session after the commit.
PopBasket_Omitted(sess, s) == sess

\* session.pop("basket", None)
PopBasket(sess, s) == [sess EXCEPT ![s].basket = EmptyBasket]

\* POST /create_order: login_required, the CSRF check, the empty-basket check,
\* the contact check, then the order is priced and stored and the basket is
\* popped; or db.commit() raises, and the request ends in the 500 handler
\* with nothing stored and the session as it was.
CreateOrder(s, form) ==
    /\ IF /\ IsAuthenticated(s)
          /\ validate_csrf(s, form.csrf_token)
          /\ ~BasketIsEmpty(session[s].basket)
          /\ ContactFilled(form)
         THEN \/ /\ nextOrderId <= MaxOrderId
                 /\ orders' = orders \cup {NewOrder(s, form)}
                 /\ nextOrderId' = nextOrderId + 1
                 /\ session' = PopBasket(session, s)
              \/ UNCHANGED <<session, orders, nextOrderId>>
         ELSE UNCHANGED <<session, orders, nextOrderId>>
    /\ UNCHANGED <<users, resVars, menu_t, nextMenuId>>

----------------------------------------------------------------------------
(* Orders of a user: /my_order/<id> and /cancel_order/<id> *)

OrderIdInputs == 1..MaxOrderId

\* Mutant: the query for a guest's order is not filtered by the owner.
VisibleOrder_AnyOwner(s, id) == {o \in orders : o.id = id}

\* The order the requester may see: any for the administrator, else an own one.
VisibleOrder(s, id) ==
    IF IsAdmin(s) THEN {o \in orders : o.id = id}
    ELSE {o \in orders : o.id = id /\ o.user_id = session[s].user_id}

\* The total_price my_order computes for the page, from the menu as it is when
\* the page is requested.
MyOrderTotal(order, rows) ==
    SumLines(Prices(rows, DOMAIN order.order_list), order.order_list,
             DOMAIN order.order_list)

\* What GET /my_order/<id> renders: the order and total_price.
MyOrderPage(s, id) ==
    {[order |-> o, total_price |-> MyOrderTotal(o, menu_t)] :
        o \in IF IsAuthenticated(s) THEN VisibleOrder(s, id) ELSE {}}

MyOrderForms(s) ==
    [csrf_token : {CsrfTokenOf(s)}, action : {"cancel", ""}]
    \cup [csrf_token : CsrfInputs(s), action : {"cancel"}]

\* Mutant: showing an order saves the recomputed total into the stored row.
MyOrder_SavesTotal(s, id, method, form) ==
    /\ orders' = (orders \ {p.order : p \in MyOrderPage(s, id)}) \cup
                 {[p.order EXCEPT !.total_cost = p.total_price] :
                     p \in MyOrderPage(s, id)}
    /\ UNCHANGED <<users, session, resVars, menu_t, nextMenuId, nextOrderId>>

\* /my_order/<id>: GET renders the page; POST with action "cancel" deletes the
\* order; a POST with another action renders the page.
MyOrder(s, id, method, form) ==
    /\ IF /\ MyOrderPage(s, id) # {}
          /\ method = "POST"
          /\ validate_csrf(s, form.csrf_token)
          /\ form.action = "cancel"
         THEN orders' = orders \ VisibleOrder(s, id)
         ELSE UNCHANGED orders
    /\ UNCHANGED <<users, session, resVars, menu_t, nextMenuId, nextOrderId>>

\* POST /cancel_order/<id>
CancelOrder(s, id, csrf_token) ==
    /\ IF IsAuthenticated(s) /\ validate_csrf(s, csrf_token)
         THEN orders' = orders \ VisibleOrder(s, id)
         ELSE UNCHANGED orders
    /\ UNCHANGED <<users, session, resVars, menu_t, nextMenuId, nextOrderId>>

----------------------------------------------------------------------------
(* Menu administration: /add_position and /menu_check *)

\* Decimal(value): the price strings it parses, in thousandths.
DecimalLiterals == {"95.505", "89.00"}

MillsOf(str) ==
    CASE str = "95.505" -> 95505
      [] str = "89.00" -> 89000

PriceInputs == {"95.505", "abc", ""}

\* quantize(Decimal("0.01")) under the default rounding, ROUND_HALF_EVEN, from
\* thousandths to cents.
Quantize(mills) ==
    LET q == mills \div 10
        r == mills % 10
    IN IF r < 5 THEN q
       ELSE IF r > 5 THEN q + 1
       ELSE IF q % 2 = 0 THEN q ELSE q + 1

\* normalize_price raises on a string Decimal does not parse.
NormalizePriceOk(value) == value \in DecimalLiterals

normalize_price(value) == Quantize(MillsOf(value))

\* The forms posted to /add_position; `rest` stands for the ingredients, the
\* description, the weight and the image together.
AddPositionForms(s) ==
    {[csrf_token |-> CsrfTokenOf(s), name |-> n, price |-> p,
      rest |-> "filled"] : n \in NameInputs, p \in PriceInputs}
    \cup {[csrf_token |-> tok, name |-> "Pumpkin Elixir", price |-> "95.505",
           rest |-> r] : tok \in CsrfInputs(s), r \in {"filled", ""}}

\* POST /add_position: the administrator gate, the CSRF check, the required
\* fields, the price, the duplicate name, then the insert.
AddPosition(s, form) ==
    /\ IF /\ IsAuthenticated(s)
          /\ IsAdmin(s)
          /\ validate_csrf(s, form.csrf_token)
          /\ Strip(form.name) # ""
          /\ Strip(form.price) # ""
          /\ form.rest # ""
          /\ NormalizePriceOk(Strip(form.price))
          /\ ~\E row \in menu_t : row.name = Strip(form.name)
         THEN /\ nextMenuId <= MaxMenuId
              /\ menu_t' = menu_t \cup
                    {[id |-> nextMenuId, name |-> Strip(form.name),
                      price |-> normalize_price(Strip(form.price)),
                      active |-> TRUE]}
              /\ nextMenuId' = nextMenuId + 1
         ELSE UNCHANGED <<menu_t, nextMenuId>>
    /\ UNCHANGED <<users, session, resVars, orders, nextOrderId>>

\* The pos_id form field: missing, not a number, or the id of a menu row that
\* carries one of the names of NameInputs, seeded or added later.
PosIdInputs ==
    {"", "abc"}
    \cup {ToString(row.id) : row \in {r \in SeedMenu : r.name \in NameInputs}}
    \cup {ToString(i) : i \in (Cardinality(SeedMenu) + 1)..MaxMenuId}

\* int(position_id) succeeds.
PosIdOk(pos_id) == \E i \in 1..MaxMenuId : ToString(i) = pos_id

MenuCheckForms(s) ==
    [csrf_token : {CsrfTokenOf(s)}, pos_id : PosIdInputs,
     action : {"toggle", "delete"}]
    \cup [csrf_token : CsrfInputs(s), pos_id : {"1"}, action : {"toggle"}]
    \cup [csrf_token : {CsrfTokenOf(s)}, pos_id : {"1"}, action : {""}]

\* POST /menu_check: the administrator toggles or deletes the menu item of
\* the given id.
MenuCheck(s, form) ==
    /\ IF /\ IsAuthenticated(s)
          /\ IsAdmin(s)
          /\ validate_csrf(s, form.csrf_token)
          /\ form.pos_id # ""
          /\ PosIdOk(form.pos_id)
         THEN LET item == {row \in menu_t : ToString(row.id) = form.pos_id}
              IN IF form.action = "toggle"
                   THEN menu_t' = (menu_t \ item) \cup
                           {[row EXCEPT !.active = ~row.active] : row \in item}
                 ELSE IF form.action = "delete"
                   THEN menu_t' = menu_t \ item
                 ELSE UNCHANGED menu_t
         ELSE UNCHANGED menu_t
    /\ UNCHANGED <<users, session, resVars, nextMenuId, orders, nextOrderId>>

\* GET /menu: the active items.
MenuListing == {row \in menu_t : row.active}

----------------------------------------------------------------------------
(* Registration and login: /register, /login, /logout *)

NicknameInputs == {"", ADMIN_NICKNAME, "luna", " luna ", "ron"}

EmailInputs ==
    {"", "admin@hogwarts.feast", "luna@owl.post", " LUNA@owl.post ",
     "ron@owl.post"}

PasswordInputs == {"alohomora", "lumos", ADMIN_PASSWORD}

\* The forms posted to /register: every nickname, email and password with the
\* session's token, and a good form with no token and with a forged one.
RegisterForms(s) ==
    [csrf_token : {CsrfTokenOf(s)}, nickname : NicknameInputs,
     email : EmailInputs, password : PasswordInputs \ {ADMIN_PASSWORD}]
    \cup [csrf_token : CsrfInputs(s), nickname : {"ron"},
          email : {"ron@owl.post"}, password : {"alohomora"}]

\* db.query(Users).filter((Users.email == email) | (Users.nickname == nickname))
Duplicate(rows, nickname, email) ==
    {u \in rows : u.email = email \/ u.nickname = nickname}

\* The checks of register before its query: the CSRF token, the length of
\* the password, the nickname and the email after trimming.
RegisterFormOk(s, form) ==
    /\ validate_csrf(s, form.csrf_token)
    /\ Len(form.password) >= 8
    /\ Strip(form.nickname) # ""
    /\ Lower(Strip(form.email)) # ""

\* POST /register up to its query: the checks of the form, then the query
\* for a user with that nickname or that email.
RegisterBegin(s, form) ==
    /\ IF /\ RegisterFormOk(s, form)
          /\ Duplicate(users, Strip(form.nickname),
                       Lower(Strip(form.email))) = {}
         THEN /\ BagCardinality(req) < MaxInflight
              /\ Cardinality(users) + BagCardinality(req) < NUsers
              /\ req' = req (+) One(
                           [pc |-> "register", s |-> s,
                            nickname |-> Strip(form.nickname),
                            email |-> Lower(Strip(form.email)),
                            password |-> Hash(form.password)])
         ELSE UNCHANGED req
    /\ UNCHANGED <<users, session, reservation, nextResId, orderVars>>

\* Mutant: the columns nickname and email are not declared unique.
UniqueViolation_Undeclared(rows, row) == FALSE

\* unique=True on users.nickname and users.email: the insert of the row fails.
UniqueViolation(rows, row) ==
    \E u \in rows : u.nickname = row.nickname \/ u.email = row.email

\* login_user: the session is bound to the user.
LoginUser(sess, s, user_id) == [sess EXCEPT ![s].user_id = user_id]

\* db.add(user); db.commit(); login_user(user).  The key is the next value of
\* the sequence of users.id: a value that no row carries.  A commit that the
\* unique constraints refuse raises, and the request ends in the 500 handler.
RegisterCommit(q, id) ==
    /\ BagIn(q, req)
    /\ q.pc = "register"
    /\ id \notin {u.id : u \in users}
    /\ LET user == [id |-> id, nickname |-> q.nickname, email |-> q.email,
                    password |-> q.password]
       IN IF UniqueViolation(users, user)
            THEN UNCHANGED <<users, session>>
            ELSE /\ users' = users \cup {user}
                 /\ session' = LoginUser(session, q.s, id)
    /\ req' = req (-) One(q)
    /\ UNCHANGED <<reservation, nextResId, orderVars>>

\* The forms posted to /login.
LoginForms(s) ==
    [csrf_token : {CsrfTokenOf(s)}, nickname : {ADMIN_NICKNAME, " luna ", "ron"},
     password : {"alohomora", ADMIN_PASSWORD}, persona : {"guest", "admin"}]
    \cup [csrf_token : CsrfInputs(s), nickname : {ADMIN_NICKNAME},
          password : {ADMIN_PASSWORD}, persona : {"admin"}]

\* The two persona gates of login.
PersonaOk(nickname, password, persona) ==
    /\ ~(persona = "admin"
         /\ (nickname # ADMIN_NICKNAME \/ password # ADMIN_PASSWORD))
    /\ ~(persona = "guest" /\ nickname = ADMIN_NICKNAME)

\* user.check_password(password)
CheckPassword(user, password) == user.password = Hash(password)

\* The user that POST /login authenticates, if any.
LoginMatch(s, form) ==
    {u \in users :
        /\ validate_csrf(s, form.csrf_token)
        /\ PersonaOk(Strip(form.nickname), form.password, form.persona)
        /\ u.nickname = Strip(form.nickname)
        /\ CheckPassword(u, form.password)}

\* POST /login
Login(s, form) ==
    /\ IF LoginMatch(s, form) # {}
         THEN \E u \in LoginMatch(s, form) :
                 session' = LoginUser(session, s, u.id)
         ELSE UNCHANGED session
    /\ UNCHANGED <<users, resVars, orderVars>>

\* GET /logout: login_required, then logout_user.
Logout(s) ==
    /\ IF IsAuthenticated(s)
         THEN session' = [session EXCEPT ![s].user_id = 0]
         ELSE UNCHANGED session
    /\ UNCHANGED <<users, resVars, orderVars>>

----------------------------------------------------------------------------
(* The answer of each POST endpoint up to its CSRF check *)

\* "403": the handler returns the blocking response of a failed CSRF check;
\* "302": an earlier check of the handler, or login_required, has redirected
\* the request; "processed": the request has passed the CSRF check.
CsrfAnswer(form_token_ok) == IF form_token_ok THEN "processed" ELSE "403"

RegisterStatus(s, form) == CsrfAnswer(validate_csrf(s, form.csrf_token))

LoginStatus(s, form) == CsrfAnswer(validate_csrf(s, form.csrf_token))

PositionStatus(s, name, form) ==
    IF ActiveItem(name) = {} THEN "302"
    ELSE CsrfAnswer(validate_csrf(s, form.csrf_token))

CreateOrderStatus(s, form) ==
    IF ~IsAuthenticated(s) THEN "302"
    ELSE CsrfAnswer(validate_csrf(s, form.csrf_token))

MyOrderStatus(s, id, form) ==
    IF ~IsAuthenticated(s) THEN "302"
    ELSE IF VisibleOrder(s, id) = {} THEN "302"
    ELSE CsrfAnswer(validate_csrf(s, form.csrf_token))

CancelOrderStatus(s, id, csrf_token) ==
    IF ~IsAuthenticated(s) THEN "302"
    ELSE CsrfAnswer(validate_csrf(s, csrf_token))

AddPositionStatus(s, form) ==
    IF ~IsAuthenticated(s) THEN "302"
    ELSE IF ~IsAdmin(s) THEN "302"
    ELSE CsrfAnswer(validate_csrf(s, form.csrf_token))

MenuCheckStatus(s, form) ==
    IF ~IsAuthenticated(s) THEN "302"
    ELSE IF ~IsAdmin(s) THEN "302"
    ELSE CsrfAnswer(validate_csrf(s, form.csrf_token))

ReservationsCheckStatus(s, csrf_token) ==
    IF ~IsAuthenticated(s) THEN "302"
    ELSE IF ~IsAdmin(s) THEN "302"
    ELSE CsrfAnswer(validate_csrf(s, csrf_token))

ReservedStatus(s, form) ==
    IF ~IsAuthenticated(s) THEN "302"
    ELSE CsrfAnswer(validate_csrf(s, form.csrf_token))

\* One form for each POST endpoint, complete but for the token it is given.
RegisterProbe(csrf_token) ==
    [csrf_token |-> csrf_token, nickname |-> "ron", email |-> "ron@owl.post",
     password |-> "alohomora"]

LoginProbe(csrf_token) ==
    [csrf_token |-> csrf_token, nickname |-> ADMIN_NICKNAME,
     password |-> ADMIN_PASSWORD, persona |-> "admin"]

PositionProbe(csrf_token) == [csrf_token |-> csrf_token, num |-> "2"]

CreateOrderProbe(csrf_token) == OrderForm(csrf_token, GoodOrderContact)

MyOrderProbe(csrf_token) == [csrf_token |-> csrf_token, action |-> "cancel"]

AddPositionProbe(csrf_token) ==
    [csrf_token |-> csrf_token, name |-> "Pumpkin Elixir", price |-> "95.505",
     rest |-> "filled"]

MenuCheckProbe(csrf_token) ==
    [csrf_token |-> csrf_token, pos_id |-> "1", action |-> "delete"]

ReservedProbe(csrf_token) ==
    ReservedForm(csrf_token, "4+", GoodTime, GoodContact)

\* The browser that sends the probes.
Browsers == {1}

----------------------------------------------------------------------------
(* Initial state and the specifications *)

InitSession ==
    [s \in Sessions |->
        [user_id |-> s, csrf_token |-> CsrfTokenOf(s), basket |-> EmptyBasket]]

Init ==
    /\ users = InitUsers
    /\ session = InitSession
    /\ reservation = {}
    /\ nextResId = 1
    /\ req = EmptyBag
    /\ menu_t = SeedMenu
    /\ nextMenuId = Cardinality(SeedMenu) + 1
    /\ orders = {}
    /\ nextOrderId = 1

\* The reservation requests and the administrator's deletions.
NextReserve ==
    \/ \E s \in Sessions : \E form \in ReservedForms(s) : ReservedBegin(s, form)
    \/ \E q \in BagToSet(req) : ReservedCount(q)
    \/ \E q \in BagToSet(req) : ReservedFinish(q)
    \/ \E s \in Sessions, reserv_id \in ReservIdInputs :
          \E csrf_token \in CsrfInputs(s) :
             ReservationsCheck(s, csrf_token, reserv_id)
    \/ \E s \in Sessions : MyReservations(s)

SpecReserve == Init /\ [][NextReserve]_vars

\* The basket, the orders and the menu administration.
NextOrder ==
    \/ \E s \in Sessions, name \in NameInputs :
          \E form \in PositionForms(s) : Position(s, name, form)
    \/ \E s \in Sessions : \E form \in OrderForms(s) : CreateOrder(s, form)
    \/ \E s \in Sessions, id \in OrderIdInputs, method \in {"GET", "POST"} :
          \E form \in MyOrderForms(s) : MyOrder(s, id, method, form)
    \/ \E s \in Sessions, id \in OrderIdInputs :
          \E csrf_token \in CsrfInputs(s) : CancelOrder(s, id, csrf_token)
    \/ \E s \in Sessions : \E form \in AddPositionForms(s) : AddPosition(s, form)
    \/ \E s \in Sessions : \E form \in MenuCheckForms(s) : MenuCheck(s, form)

SpecOrder == Init /\ [][NextOrder]_vars

\* The state after construction: the administrator is the only user and no
\* session is logged in.
InitAuth ==
    /\ users = {AdminUser}
    /\ session = [s \in Sessions |-> [InitSession[s] EXCEPT !.user_id = 0]]
    /\ reservation = {}
    /\ nextResId = 1
    /\ req = EmptyBag
    /\ menu_t = SeedMenu
    /\ nextMenuId = Cardinality(SeedMenu) + 1
    /\ orders = {}
    /\ nextOrderId = 1

\* Registration, login and logout.
NextAuth ==
    \/ \E s \in Sessions : \E form \in RegisterForms(s) : RegisterBegin(s, form)
    \/ \E q \in BagToSet(req), id \in UserIds : RegisterCommit(q, id)
    \/ \E s \in Sessions : \E form \in LoginForms(s) : Login(s, form)
    \/ \E s \in Sessions : Logout(s)

SpecAuth == InitAuth /\ [][NextAuth]_vars

\* The order that a checkout of user_id stores for two units of the first
\* dish, with the key 1.
StoredOrder(user_id) ==
    [id |-> 1,
     order_list |-> ("Pumpkin Elixir" :> 2),
     total_cost |-> OrderTotal(("Pumpkin Elixir" :> 2), SeedMenu),
     customer_name |-> GoodOrderContact.customer_name,
     customer_phone |-> GoodOrderContact.customer_phone,
     customer_address |-> GoodOrderContact.customer_address,
     payment_method |-> "card", delivery_notes |-> "",
     user_id |-> user_id]

\* The reservations that two guests hold after one accepted request each.
StoredReservations ==
    {[id |-> 1, user_id |-> 2, type_table |-> "4+", time_start |-> GoodTime],
     [id |-> 2, user_id |-> 3, type_table |-> "3-4", time_start |-> GoodTime]}

\* A state the restaurant is in after two guests have reserved and one user,
\* the administrator or a guest, has checked out: the rows are stored, the
\* baskets are empty again and no request is in flight.
InitAdmin ==
    /\ users = InitUsers
    /\ session = InitSession
    /\ reservation = StoredReservations
    /\ nextResId = Cardinality(StoredReservations) + 1
    /\ req = EmptyBag
    /\ menu_t = SeedMenu
    /\ nextMenuId = Cardinality(SeedMenu) + 1
    /\ \E user_id \in UserIds : orders = {StoredOrder(user_id)}
    /\ nextOrderId = 2

\* The requests on the menu, the orders and the stored reservations.
NextAdmin ==
    \/ NextOrder
    \/ \E s \in Sessions, reserv_id \in ReservIdInputs :
          \E csrf_token \in CsrfInputs(s) :
             ReservationsCheck(s, csrf_token, reserv_id)

SpecAdmin == InitAdmin /\ [][NextAdmin]_vars

\* Session s posts one form to one of the POST endpoints, with that token.
PostWithToken(s, csrf_token) ==
    \/ RegisterBegin(s, RegisterProbe(csrf_token))
    \/ Login(s, LoginProbe(csrf_token))
    \/ Position(s, "Pumpkin Elixir", PositionProbe(csrf_token))
    \/ CreateOrder(s, CreateOrderProbe(csrf_token))
    \/ MyOrder(s, 1, "POST", MyOrderProbe(csrf_token))
    \/ CancelOrder(s, 1, csrf_token)
    \/ AddPosition(s, AddPositionProbe(csrf_token))
    \/ MenuCheck(s, MenuCheckProbe(csrf_token))
    \/ ReservationsCheck(s, csrf_token, 1)
    \/ ReservedBegin(s, ReservedProbe(csrf_token))

\* Every POST endpoint, from one browser and with every token, from the
\* state after construction; the requests that have passed their checks run
\* on to their commit.
NextCsrf ==
    \/ \E s \in Browsers : \E csrf_token \in CsrfInputs(s) :
          PostWithToken(s, csrf_token)
    \/ \E q \in BagToSet(req), id \in UserIds : RegisterCommit(q, id)
    \/ \E q \in BagToSet(req) : ReservedCount(q)
    \/ \E q \in BagToSet(req) : ReservedFinish(q)
    \/ \E s \in Browsers : Logout(s)

SpecCsrf == InitAuth /\ [][NextCsrf]_vars

----------------------------------------------------------------------------
(* Properties of the reservation allocator *)

RowsOf(user_id) == {row \in reservation : row.user_id = user_id}

\* C1: in every reachable state, for every table type, the number of stored
\* reservations of that type is at most its configured capacity, also when
\* POST /reserved requests interleave between the count and the commit.
C1_CapacityNeverExceeded ==
    \A t \in TableTypes : Taken(reservation, t) <= TABLE_NUM[t]

\* C2: in every reachable state each user owns at most one reservation, also
\* when the same user issues two POST /reserved requests concurrently.
C2_OneReservationPerUser ==
    \A u \in UserIds : Cardinality(RowsOf(u)) <= 1

\* The two query results of request q are those the store gives now: so it is
\* for every request that runs without another request's commit in between.
SnapshotCurrent(q) ==
    /\ q.existing = Existing(reservation, q.user_id)
    /\ q.taken = Taken(reservation, q.table_type)

InsertsOneRowFor(q) ==
    \E row \in reservation' \ reservation :
        /\ reservation' = reservation \cup {row}
        /\ row.user_id = q.user_id
        /\ row.type_table = q.table_type

\* C3: a POST /reserved request that runs without interleaving, with a valid
\* token, all fields filled and a parseable time, inserts exactly one
\* reservation if and only if (a) the user holds no reservation and (b) the
\* count of reservations of the requested type is below that type's capacity;
\* otherwise it inserts nothing. A type outside the enumeration is never
\* reserved.
C3_ReserveIffFreeAndNoneHeld ==
    [][\A q \in BagToSet(req) :
          (ReservedFinish(q) /\ SnapshotCurrent(q) /\ FromIsoformatOk(q.time))
          => IF /\ q.table_type \in TableTypes
                /\ RowsOf(q.user_id) = {}
                /\ Taken(reservation, q.table_type) < TABLE_NUM[q.table_type]
               THEN InsertsOneRowFor(q)
               ELSE reservation' = reservation]_vars

\* Witness of C3: the type "4+" holds capacity-many reservations of two
\* users, and a request for it of a user holding none has run both its queries
\* with nothing committed in between; its last step turns it away.
C3_Witness ==
    /\ Taken(reservation, "4+") = TABLE_NUM["4+"]
    /\ C2_OneReservationPerUser
    /\ \E q \in BagToSet(req) :
          /\ q.pc = "taken"
          /\ q.table_type = "4+"
          /\ ~q.existing
          /\ SnapshotCurrent(q)

\* C4: a POST /reserved request whose time field does not parse is rejected:
\* none of its steps changes the reservations, orders, users or menu items.
C4_BadTimeChangesNothing ==
    [][(<<reservation, orders, users, menu_t>>'
            # <<reservation, orders, users, menu_t>>)
          => /\ \A s \in Sessions : \A form \in ReservedForms(s) :
                   ~FromIsoformatOk(form.time) => ~ReservedBegin(s, form)
             /\ \A q \in BagToSet(req) :
                   ~FromIsoformatOk(q.time)
                   => ~(ReservedCount(q) \/ ReservedFinish(q))]_vars

\* Witness of C4: reservations are stored and a request whose time does not
\* parse has passed the existing-reservation and capacity checks, so that its
\* last step rejects it for the time.
C4_Witness ==
    /\ reservation # {}
    /\ \E q \in BagToSet(req) :
          /\ q.pc = "taken"
          /\ ~FromIsoformatOk(q.time)
          /\ SnapshotCurrent(q)
          /\ ReserveOutcome(q.existing, q.taken, q.table_type, q.time)
                = "bad_time"

\* A step taken by a request of user u.
StepOfUser(u) ==
    \/ \E s \in Sessions :
          /\ session[s].user_id = u
          /\ \/ \E form \in ReservedForms(s) : ReservedBegin(s, form)
             \/ \E reserv_id \in ReservIdInputs, csrf_token \in CsrfInputs(s) :
                   ReservationsCheck(s, csrf_token, reserv_id)
             \/ MyReservations(s)
    \/ \E q \in BagToSet(req) :
          /\ q.user_id = u
          /\ (ReservedCount(q) \/ ReservedFinish(q))

IsAdminId(u) == \E row \in users : row.id = u /\ row.nickname = ADMIN_NICKNAME

\* C5 as stated: for every stored reservation an operation is available to
\* its owning, non-administrator user that removes that reservation.
C5_OwnerCanDelete ==
    \A row \in reservation :
        ~IsAdminId(row.user_id)
        => ENABLED (StepOfUser(row.user_id) /\ row \notin reservation')

\* C5 as amended: a reservation is removed only by the administrator's
\* POST /reservations_check; no step of a request of any other user, the
\* owner included, removes a reservation.
C5_OnlyAdminDeletes ==
    [][(reservation \ reservation' # {})
          => /\ \E s \in Sessions :
                   /\ IsAdmin(s)
                   /\ \E reserv_id \in ReservIdInputs, csrf_token \in CsrfInputs(s) :
                         ReservationsCheck(s, csrf_token, reserv_id)
             /\ \A u \in UserIds : ~IsAdminId(u) => ~StepOfUser(u)]_vars

\* Witness of C5: a reservation was deleted (fewer rows are stored than were
\* inserted) while a guest still owns one.
C5_Witness ==
    /\ Cardinality(reservation) < nextResId - 1
    /\ \E row \in reservation : ~IsAdminId(row.user_id)

\* C6: deleting a reservation removes exactly that row, lowers the count of
\* its table type by one, and frees the slot: the next well-formed request for
\* that type by a user holding no reservation succeeds, and the former owner
\* holds no reservation any more and may reserve again.
C6_DeleteFreesSlot ==
    [][\A row \in reservation :
          row \notin reservation'
          => /\ reservation' = reservation \ {row}
             /\ Taken(reservation', row.type_table)
                   = Taken(reservation, row.type_table) - 1
             /\ \A u \in UserIds :
                   ~Existing(reservation', u)
                   => ReserveOutcome(Existing(reservation', u),
                                     Taken(reservation', row.type_table),
                                     row.type_table, GoodTime) = "created"
             /\ ~Existing(reservation', row.user_id)]_vars

----------------------------------------------------------------------------
(* Properties of the order pipeline *)

\* P[name]: the price of the menu item of that name, 0 when there is none.
PriceOf(rows, name) ==
    IF \E row \in rows : row.name = name
      THEN (CHOOSE row \in rows : row.name = name).price
      ELSE 0

\* The sum over the names of B of P[name] * B[name].
RECURSIVE SumOverBasket(_, _, _)
SumOverBasket(rows, B, names) ==
    IF names = {} THEN 0
    ELSE LET n == CHOOSE x \in names : TRUE
         IN PriceOf(rows, n) * B[n] + SumOverBasket(rows, B, names \ {n})

\* A checkout of session s with its own token and all contact fields given.
GoodCheckout(s) ==
    CreateOrder(s, OrderForm(CsrfTokenOf(s), GoodOrderContact))

\* C7: a successful POST /create_order with basket B under menu prices P
\* stores an order whose total_cost is the sum over the basket names of
\* P[name] * B[name], a name without a menu item counting 0; and a checkout
\* of a non-empty basket is not rejected, whatever names the basket holds.
C7_TotalIsSumOverBasket ==
    /\ [][\A o \in orders' \ orders :
             \A s \in Sessions :
                session[s].user_id = o.user_id
                => /\ o.order_list = session[s].basket
                   /\ o.total_cost =
                         SumOverBasket(menu_t, session[s].basket,
                                       DOMAIN session[s].basket)]_vars
    /\ [](\A s \in Sessions :
             (/\ IsAuthenticated(s)
              /\ DOMAIN session[s].basket # {}
              /\ nextOrderId <= MaxOrderId)
             => ENABLED (GoodCheckout(s) /\ Cardinality(orders') > Cardinality(orders)))

\* Witness of C7: an order of 2 units at 89.00 is stored with total 178.00.
C7_Witness ==
    \E o \in orders :
        /\ o.order_list = ("Pumpkin Elixir" :> 2)
        /\ o.total_cost = 17800

\* C8: a POST /create_order issued while the session's basket is empty never
\* creates an order row: every row that a step adds to the orders belongs to
\* a user whose session held a non-empty basket.
C8_EmptyBasketCreatesNoOrder ==
    [][\A o \in orders' \ orders :
          \A s \in Sessions :
             session[s].user_id = o.user_id => DOMAIN session[s].basket # {}]_vars

\* Witness of C8: after an add-to-basket and a checkout, the user's basket is
\* empty again and the user's order is stored; a further checkout is the
\* request of the claim.
C8_Witness ==
    \E s \in Sessions :
        /\ IsAuthenticated(s)
        /\ DOMAIN session[s].basket = {}
        /\ \E o \in orders : o.user_id = session[s].user_id
        /\ ENABLED (GoodCheckout(s) /\ UNCHANGED orders)

\* C9: stored orders are never updated: an order that is still stored after a
\* step is stored with the same order_list, total_cost, contact fields and
\* user_id; an order only ever changes by being deleted.
C9_OrdersNeverUpdated ==
    [][\A o \in orders :
          (\E o2 \in orders' : o2.id = o.id) => o \in orders']_vars

\* Witness of C9: an order is stored with its total although a menu item it
\* names has been deleted since.
C9_Witness ==
    \E o \in orders :
        /\ o.total_cost > 0
        /\ \E n \in DOMAIN o.order_list : ~\E row \in menu_t : row.name = n

\* C10: the total that /my_order/<id> shows for an order equals the total
\* fixed at checkout, after any later sequence of menu changes.
C10_ShownTotalIsSnapshot ==
    \A s \in Sessions, id \in OrderIdInputs :
        \A p \in MyOrderPage(s, id) : p.total_price = p.order.total_cost

----------------------------------------------------------------------------
(* Properties of registration *)

\* No stored user carries that nickname or that email.
Fresh(nickname, email) ==
    \A u \in users : u.nickname # nickname /\ u.email # email

\* The step stores exactly one new user, with the request's nickname and
\* email, and binds the request's session to that user and to no other.
CreatesAndAuthenticates(q) ==
    \E row \in users' \ users :
        /\ users' = users \cup {row}
        /\ row.nickname = q.nickname
        /\ row.email = q.email
        /\ session'[q.s].user_id = row.id
        /\ \A s \in Sessions \ {q.s} : session'[s] = session[s]

\* C11: a POST /register with a nickname or an email that an existing user
\* carries creates no user, so that in every reachable state, concurrent
\* registrations included, no two users share a nickname or an email; a
\* registration with a fresh nickname, a fresh email (both as the handler
\* reads them, trimmed, the email in lower case, and not blank) and a password
\* of at least 8 characters is accepted, creates exactly one user and leaves
\* that user authenticated in the session.
C11_RegisterKeepsUsersUnique ==
    /\ [](\A u, v \in users :
             u # v => u.nickname # v.nickname /\ u.email # v.email)
    /\ [][/\ users' # users
             => \E q \in BagToSet(req) :
                   /\ Fresh(q.nickname, q.email)
                   /\ CreatesAndAuthenticates(q)
          /\ \A q \in BagToSet(req') :
                ~BagIn(q, req) => Fresh(q.nickname, q.email)
          /\ \A q \in BagToSet(req) : \A id \in UserIds :
                (RegisterCommit(q, id) /\ Fresh(q.nickname, q.email))
                => CreatesAndAuthenticates(q)]_vars
    /\ [](\A s \in Sessions : \A form \in RegisterForms(s) :
             (/\ form.csrf_token = session[s].csrf_token
              /\ Len(form.password) >= 8
              /\ Strip(form.nickname) # ""
              /\ Strip(form.email) # ""
              /\ Fresh(Strip(form.nickname), Lower(Strip(form.email)))
              /\ BagCardinality(req) < MaxInflight
              /\ Cardinality(users) + BagCardinality(req) < NUsers)
             => ENABLED (RegisterBegin(s, form)
                         /\ BagCardinality(req') > BagCardinality(req)))

\* Witness of C11: the user "luna" is registered and authenticated in a
\* session, and a second registration of that nickname, begun before the
\* first was committed, is about to be refused.
C11_Witness ==
    \E u \in users, s \in Sessions :
        /\ u.nickname = "luna"
        /\ session[s].user_id = u.id
        /\ \E q \in BagToSet(req) : q.nickname = "luna"

----------------------------------------------------------------------------
(* Properties of the administrator gate *)

\* Session s posts to /add_position or to /menu_check.
MenuRequestOf(s) ==
    \/ \E form \in AddPositionForms(s) : AddPosition(s, form)
    \/ \E form \in MenuCheckForms(s) : MenuCheck(s, form)

\* Session s posts to /reservations_check.
ReservationsCheckOf(s) ==
    \E reserv_id \in ReservIdInputs, csrf_token \in CsrfInputs(s) :
        ReservationsCheck(s, csrf_token, reserv_id)

\* Session s posts to /cancel_order/<id> or to /my_order/<id>.
CancelRequestOf(s) ==
    \E id \in OrderIdInputs :
        \/ \E csrf_token \in CsrfInputs(s) : CancelOrder(s, id, csrf_token)
        \/ \E method \in {"GET", "POST"}, form \in MyOrderForms(s) :
              MyOrder(s, id, method, form)

\* The user of session s carries the administrator's nickname.
HasAdminNickname(s) ==
    \E u \in users : u.id = session[s].user_id /\ u.nickname = ADMIN_NICKNAME

\* C12: administrative capability is granted only to the user whose
\* nickname is the administrator's: a request of any other user never adds,
\* toggles or deletes a menu item, never deletes a reservation through
\* /reservations_check and never deletes an order of a different user; an
\* order is deleted only by its owner or by the administrator.
C12_OnlyAdminAdministers ==
    [][/\ menu_t' # menu_t
          => /\ \E s \in Sessions : HasAdminNickname(s) /\ MenuRequestOf(s)
             /\ \A s \in Sessions : ~HasAdminNickname(s) => ~MenuRequestOf(s)
       /\ reservation \ reservation' # {}
          => /\ \E s \in Sessions :
                   HasAdminNickname(s) /\ ReservationsCheckOf(s)
             /\ \A s \in Sessions :
                   ~HasAdminNickname(s) => ~ReservationsCheckOf(s)
       /\ \A o \in orders \ orders' :
             /\ \E s \in Sessions :
                   /\ HasAdminNickname(s) \/ session[s].user_id = o.user_id
                   /\ CancelRequestOf(s)
             /\ \A s \in Sessions :
                   (~HasAdminNickname(s) /\ session[s].user_id # o.user_id)
                   => ~CancelRequestOf(s)]_vars

\* Witness of C12: the administrator has changed the menu and deleted one of
\* the reservations; a guest's order is stored still, and a different guest
\* posts a cancellation of it with a valid token, which leaves it stored.
C12_Witness ==
    /\ menu_t # SeedMenu
    /\ reservation # {}
    /\ Cardinality(reservation) < nextResId - 1
    /\ \E o \in orders : \E s \in Sessions :
          /\ IsAuthenticated(s)
          /\ ~HasAdminNickname(s)
          /\ session[s].user_id # o.user_id
          /\ ENABLED (CancelOrder(s, o.id, CsrfTokenOf(s)) /\ UNCHANGED orders)

----------------------------------------------------------------------------
(* Properties of the CSRF check *)

\* The csrf_token field is missing or differs from the session's token.
BadToken(s, csrf_token) ==
    csrf_token = "" \/ csrf_token # session[s].csrf_token

\* The answers of the ten POST endpoints to the probes of session s with
\* that token, each with the checks that its handler makes before the CSRF
\* check: passed (TRUE) or not.
ProbeAnswers(s, csrf_token) ==
    {<<"register", TRUE, RegisterStatus(s, RegisterProbe(csrf_token))>>,
     <<"login", TRUE, LoginStatus(s, LoginProbe(csrf_token))>>,
     <<"position", \E row \in menu_t : row.active /\ row.name = "Pumpkin Elixir",
       PositionStatus(s, "Pumpkin Elixir", PositionProbe(csrf_token))>>,
     <<"create_order", IsAuthenticated(s),
       CreateOrderStatus(s, CreateOrderProbe(csrf_token))>>,
     <<"my_order", IsAuthenticated(s) /\ VisibleOrder(s, 1) # {},
       MyOrderStatus(s, 1, MyOrderProbe(csrf_token))>>,
     <<"cancel_order", IsAuthenticated(s),
       CancelOrderStatus(s, 1, csrf_token)>>,
     <<"add_position", IsAuthenticated(s) /\ IsAdmin(s),
       AddPositionStatus(s, AddPositionProbe(csrf_token))>>,
     <<"menu_check", IsAuthenticated(s) /\ IsAdmin(s),
       MenuCheckStatus(s, MenuCheckProbe(csrf_token))>>,
     <<"reservations_check", IsAuthenticated(s) /\ IsAdmin(s),
       ReservationsCheckStatus(s, csrf_token)>>,
     <<"reserved", IsAuthenticated(s),
       ReservedStatus(s, ReservedProbe(csrf_token))>>}

\* C13 as stated: for every POST endpoint, a request whose csrf_token field
\* is missing or differs from the session's token is blocked with the hard
\* rejection (and mutates no state).
C13_BadTokenAlwaysHardRejection ==
    \A s \in Browsers : \A csrf_token \in CsrfInputs(s) :
        BadToken(s, csrf_token)
        => \A answer \in ProbeAnswers(s, csrf_token) : answer[3] = "403"

\* C13 as amended: for every POST endpoint, a request whose csrf_token field
\* is missing or differs from the session's token mutates no state (no row
\* is inserted, updated or deleted, the basket and the session's user are
\* unchanged), and it is answered with the hard rejection whenever it passes
\* the checks that the handler makes before the CSRF check.
C13_BadTokenMutatesNothing ==
    /\ [][vars' # vars
             => \A s \in Browsers : \A csrf_token \in CsrfInputs(s) :
                   BadToken(s, csrf_token) => ~PostWithToken(s, csrf_token)]_vars
    /\ [](\A s \in Browsers : \A csrf_token \in CsrfInputs(s) :
             BadToken(s, csrf_token)
             => \A answer \in ProbeAnswers(s, csrf_token) :
                   answer[2] => answer[3] = "403")

\* Witness of C13: the administrator is logged in while a dish is in the
\* basket and an order, a reservation and a second user are stored, so that a
\* request with a bad token passes the earlier checks of every endpoint and
\* has rows, a basket and a session to spare.
C13_Witness ==
    \E s \in Browsers :
        /\ IsAdmin(s)
        /\ session[s].basket # EmptyBasket
        /\ VisibleOrder(s, 1) # {}
        /\ \E row \in reservation : row.id = 1
        /\ Cardinality(users) > 1
        /\ \A answer \in ProbeAnswers(s, "forged") : answer[2]

----------------------------------------------------------------------------
(* Properties of the checkout and of the basket *)

\* The forms of /create_order with a contact field blank after trimming.
BlankContactForms(s) ==
    {form \in OrderForms(s) :
        \/ form.customer_name \in {"", " ", "  "}
        \/ form.customer_phone \in {"", " ", "  "}
        \/ form.customer_address \in {"", " ", "  "}}

\* C14: checkout leaves no partial state: a POST /create_order either
\* commits exactly one new order, bound to the authenticated user, with
\* order_list equal to the basket at request time, and empties the session's
\* basket; or it creates no order and leaves the basket unchanged, as when a
\* contact field is blank after trimming or when the commit fails. A basket
\* is cleared only together with the commit of its order.
C14_CheckoutLeavesNoPartialState ==
    [][/\ \A o \in orders' \ orders :
             /\ orders' = orders \cup {o}
             /\ \E s \in Sessions :
                   /\ \E u \in users : u.id = session[s].user_id
                   /\ o.user_id = session[s].user_id
                   /\ o.order_list = session[s].basket
                   /\ DOMAIN session'[s].basket = {}
                   /\ \A s2 \in Sessions \ {s} : session'[s2] = session[s2]
       /\ \A s \in Sessions :
             (DOMAIN session[s].basket # {} /\ DOMAIN session'[s].basket = {})
             => \E o \in orders' \ orders :
                   /\ o.user_id = session[s].user_id
                   /\ o.order_list = session[s].basket
       /\ (orders' # orders \/ session' # session)
             => \A s \in Sessions : \A form \in BlankContactForms(s) :
                   ~CreateOrder(s, form)]_vars

\* Witness of C14: an order is stored with the basket it was made from, its
\* owner's basket is empty, and the basket of another session, filled before
\* the checkout or after it, is in place.
C14_Witness ==
    \E o \in orders : \E s, s2 \in Sessions :
        /\ session[s].user_id = o.user_id
        /\ DOMAIN o.order_list # {}
        /\ DOMAIN session[s].basket = {}
        /\ DOMAIN session[s2].basket # {}

\* max(1, requested quantity), a non-numeric quantity counting as 1.
Requested(num) ==
    CASE num = "2" -> 2
      [] num \in {"1", "-3", "abc"} -> 1

\* The basket after, against the basket before: the entry of that name is
\* increased by qty and every other entry is as it was.
Incremented(after, before, name, qty) ==
    /\ DOMAIN after = DOMAIN before \cup {name}
    /\ after[name] = (IF name \in DOMAIN before THEN before[name] ELSE 0) + qty
    /\ \A n \in DOMAIN before \ {name} : after[n] = before[n]

\* C15: adding to the basket increments the stored quantity of that item by
\* max(1, requested quantity), a non-numeric quantity counting as 1, and
\* changes no other basket entry; so every quantity in a session's basket and
\* in the order_list of a stored order is an integer that is at least 1.
C15_QuantitiesAtLeastOne ==
    /\ [][session' # session
             => \A s \in Sessions, name \in NameInputs :
                   \A form \in PositionForms(s) :
                      Position(s, name, form)
                      => /\ Incremented(session'[s].basket, session[s].basket,
                                        name, Requested(form.num))
                         /\ \A s2 \in Sessions \ {s} : session'[s2] = session[s2]]_vars
    /\ [](/\ \A s \in Sessions : \A n \in DOMAIN session[s].basket :
                session[s].basket[n] \in Nat /\ session[s].basket[n] >= 1
          /\ \A o \in orders : \A n \in DOMAIN o.order_list :
                o.order_list[n] \in Nat /\ o.order_list[n] >= 1)

\* Witness of C15: a basket holds one unit of each of two dishes, the second
\* added after the first, while an order of some quantity is stored.
C15_Witness ==
    /\ orders # {}
    /\ \E s \in Sessions :
          session[s].basket = ("Pumpkin Elixir" :> 1 @@ "Snow Owl Pie" :> 1)

\* The name matches no menu item, or only an inactive one.
Unavailable(name) == ~\E row \in menu_t : row.name = name /\ row.active

\* C16 as stated: a POST /position/{name} with a valid CSRF token increments
\* the basket entry for that name even when the name matches no menu item or
\* only an inactive one (stated where the bound on basket units leaves room
\* for the requested quantity).
C16_AddIgnoresMenu ==
    \A s \in Sessions, name \in NameInputs :
       \A form \in PositionForms(s) :
          (/\ Unavailable(name)
           /\ validate_csrf(s, form.csrf_token)
           /\ UnitsHeld(Sessions) + Requested(form.num) <= MaxBasketUnits)
          => ENABLED (/\ Position(s, name, form)
                      /\ Incremented(session'[s].basket, session[s].basket,
                                     name, Requested(form.num)))

\* C16, amended: a basket entry is incremented only for a name that matches
\* an active menu item at that moment, so a POST /position/{name} for any
\* other name changes no basket; a name already in a basket stays there when
\* its item is deactivated or deleted, and checkout stores the basket as it
\* is, with no name dropped.
C16_AddRequiresActiveItem ==
    [][/\ \A s \in Sessions, name \in NameInputs :
             BasketGet(session'[s].basket, name) > BasketGet(session[s].basket, name)
             => ~Unavailable(name)
       /\ session' # session
             => \A s \in Sessions, name \in NameInputs :
                   Unavailable(name)
                   => \A form \in PositionForms(s) : ~Position(s, name, form)
       /\ menu_t' # menu_t => session' = session
       /\ \A o \in orders' \ orders :
             \E s \in Sessions : /\ o.user_id = session[s].user_id
                                  /\ o.order_list = session[s].basket]_vars

\* Witness of C16: a dish that was added to a basket while active is no
\* longer available and the basket still holds two units of it.
C16_Witness ==
    \E s \in Sessions, name \in NameInputs :
        /\ Unavailable(name)
        /\ name \in DOMAIN session[s].basket
        /\ session[s].basket[name] = 2
        /\ validate_csrf(s, CsrfTokenOf(s))

====
